---- MODULE Spec2Model ----
(***************************************************************************)
(* Stock ledger of the DIARNEC back office (src/DIARNEC/distribuidora.py): *)
(* products with a cached quantity, inbound lots ('entrada' rows of        *)
(* movimientos_stock), outbound depletion rows ('salida'), sales and       *)
(* returns.  The variable db is the committed content of the SQLite file;  *)
(* a request handler is an operator from the database it finds to the      *)
(* database it leaves plus the message it flashes.  Prices, sellers and    *)
(* commissions never influence a stock column and are left out.            *)
(*                                                                         *)
(* SQL NULL is the empty tuple; a non-null column value v of a nullable    *)
(* column is the one-element tuple <<v>>; an ISO date 'YYYY-MM-DD' is the  *)
(* tuple <<YYYY, MM, DD>> (SQLite compares the TEXT column byte by byte,   *)
(* which on zero-padded fields is the comparison of the three numbers in   *)
(* that order).                                                            *)
(***************************************************************************)
EXTENDS Integers, Sequences, FiniteSets, TLC

VARIABLES db, last, conns

vars == <<db, last, conns>>

(* ------------------------------ bounds -------------------------------- *)
MaxProd == 1
MaxLotes == 2
MaxVentas == 1
MaxDev == 1
MaxItems == 2
MaxRenglones == 1
MaxCant == 2
MaxCantDev == 1
MaxLotesEjemplos == 3
MaxLinea == 7
MaxConn == 2
MaxItemsConc == 1
MaxLotesArchivo == 2

ProdIds == 1..MaxProd
ConnIds == 1..MaxConn
Fechas == {<<2024, 1, 1>>, <<2024, 3, 1>>}
CantIngreso == {0, MaxCant}
CantVenta == (-1)..MaxCant
CantDev == 0..MaxCantDev
FechasEjemplos == {<<2024, 1, 1>>, <<2024, 3, 1>>, <<2024, 6, 1>>}
CantIngresoEjemplos == {3, 5}
CantVentaEjemplos == {4, MaxLinea}

(* ------------------------------ SQL values ---------------------------- *)
NULL == <<>>

IsNull(x) == x = <<>>

(* int(x or 0) of a nullable integer column *)
IntOr0(x) == IF IsNull(x) THEN 0 ELSE x[1]

Min(a, b) == IF a <= b THEN a ELSE b

(* byte-wise order of two non-null ISO date texts *)
TextoMenor(a, b) ==
    \/ a[1] < b[1]
    \/ a[1] = b[1] /\ a[2] < b[2]
    \/ a[1] = b[1] /\ a[2] = b[2] /\ a[3] < b[3]

(* ------------------------------ database ------------------------------ *)
Tablas == {"productos", "movimientos_stock", "ventas", "ventas_items",
           "devoluciones_cab", "devoluciones_items"}

(* init_db on a new file: every table exists and is empty *)
init_db ==
    [productos          |-> [p \in ProdIds |-> NULL],
     movimientos_stock  |-> {},
     ventas             |-> {},
     ventas_items       |-> {},
     devoluciones_cab   |-> {},
     devoluciones_items |-> {},
     seq                |-> [t \in Tablas |-> 0]]

(* the rowid an AUTOINCREMENT table hands out next *)
NextId(conn, t) == conn.seq[t] + 1

Entradas(conn, producto_id) ==
    {m \in conn.movimientos_stock :
        m.tipo = "entrada" /\ m.producto_id = producto_id}

Salidas(conn) == {m \in conn.movimientos_stock : m.tipo = "salida"}

(* the productos row of an id: NULL when there is no such row, else its    *)
(* cantidad                                                                *)
HayProducto(conn, producto_id) == ~IsNull(conn.productos[producto_id])

(* UPDATE productos SET cantidad = cantidad + delta WHERE id = producto_id *)
(* (no row, no effect)                                                     *)
UpdateCantidad(conn, producto_id, delta) ==
    IF HayProducto(conn, producto_id)
    THEN [conn EXCEPT !.productos[producto_id] = <<@[1] + delta>>]
    ELSE conn

(* INSERT INTO movimientos_stock: the row gets the next rowid *)
InsertMovimiento(conn, fila) ==
    LET id == NextId(conn, "movimientos_stock")
    IN [conn EXCEPT
          !.movimientos_stock = @ \cup {[fila EXCEPT !.id = id]},
          !.seq["movimientos_stock"] = id]

(* ------------------------------ ensure_schema ------------------------- *)
(* mutant of ensure_schema: the backfill also takes the lots at 0 *)
ensure_schema_hasta_cero(d) ==
    [d EXCEPT !.movimientos_stock =
        {IF m.tipo = "entrada" /\ (IF IsNull(m.cantidad_restante) THEN TRUE
                                   ELSE m.cantidad_restante[1] <= 0)
         THEN [m EXCEPT !.cantidad_restante = <<m.cantidad>>]
         ELSE m : m \in @}]

(* the backfill of cantidad_restante; the DDL around it changes no row     *)
ensure_schema(d) ==
    [d EXCEPT !.movimientos_stock =
        {IF m.tipo = "entrada" /\ (IF IsNull(m.cantidad_restante) THEN TRUE
                                   ELSE m.cantidad_restante[1] < 0)
         THEN [m EXCEPT !.cantidad_restante = <<m.cantidad>>]
         ELSE m : m \in @}]

(* the before_request hook: init_db creates nothing on an existing file,   *)
(* ensure_schema runs and commits on a connection of its own               *)
initialize_database(d) == ensure_schema(d)

(* ------------------------------ FEFO allocator ------------------------ *)
(* mutant of OrdenFefo: ORDER BY id ASC alone *)
OrdenPorId(a, b) == a.id < b.id

(* mutant of OrdenFefo: ORDER BY fecha_vencimiento ASC, id ASC, where      *)
(* SQLite puts NULL first                                                  *)
OrdenNullPrimero(a, b) ==
    LET na == IF IsNull(a.fecha_vencimiento) THEN 0 ELSE 1
        nb == IF IsNull(b.fecha_vencimiento) THEN 0 ELSE 1
    IN \/ na < nb
       \/ /\ na = nb
          /\ na = 1
          /\ TextoMenor(a.fecha_vencimiento, b.fecha_vencimiento)
       \/ /\ na = nb
          /\ (na = 0 \/ a.fecha_vencimiento = b.fecha_vencimiento)
          /\ a.id < b.id

(* mutant of OrdenFefo: the tie-break is id DESC *)
OrdenIdDesc(a, b) ==
    LET na == IF IsNull(a.fecha_vencimiento) THEN 1 ELSE 0
        nb == IF IsNull(b.fecha_vencimiento) THEN 1 ELSE 0
    IN \/ na < nb
       \/ /\ na = nb
          /\ na = 0
          /\ TextoMenor(a.fecha_vencimiento, b.fecha_vencimiento)
       \/ /\ na = nb
          /\ (na = 1 \/ a.fecha_vencimiento = b.fecha_vencimiento)
          /\ a.id > b.id

(* ORDER BY CASE WHEN fecha_vencimiento IS NULL THEN 1 ELSE 0 END ASC,     *)
(*          fecha_vencimiento ASC, id ASC                                  *)
OrdenFefo(a, b) ==
    LET na == IF IsNull(a.fecha_vencimiento) THEN 1 ELSE 0
        nb == IF IsNull(b.fecha_vencimiento) THEN 1 ELSE 0
    IN \/ na < nb
       \/ /\ na = nb
          /\ na = 0
          /\ TextoMenor(a.fecha_vencimiento, b.fecha_vencimiento)
       \/ /\ na = nb
          /\ (na = 1 \/ a.fecha_vencimiento = b.fecha_vencimiento)
          /\ a.id < b.id

RECURSIVE Ordenado(_)
(* the rows of S as the sequence the ORDER BY returns them in *)
Ordenado(S) ==
    IF S = {} THEN <<>>
    ELSE LET primero == CHOOSE x \in S : \A y \in S \ {x} : OrdenFefo(x, y)
         IN <<primero>> \o Ordenado(S \ {primero})

(* WHERE producto_id = ? AND tipo = 'entrada'                              *)
(*   AND (cantidad_restante IS NULL OR cantidad_restante > 0)              *)
Candidatos(conn, producto_id) ==
    {m \in Entradas(conn, producto_id) :
        IF IsNull(m.cantidad_restante) THEN TRUE
        ELSE m.cantidad_restante[1] > 0}

(* the SELECT of the lots, fetched once before the walk *)
LotesFefo(conn, producto_id) == Ordenado(Candidatos(conn, producto_id))

(* UPDATE movimientos_stock SET cantidad_restante = cantidad_restante - usa *)
(* WHERE id = ?  (NULL - usa is NULL)                                      *)
DescontarLote(conn, id, usa) ==
    [conn EXCEPT !.movimientos_stock =
        {IF m.id = id /\ ~IsNull(m.cantidad_restante)
         THEN [m EXCEPT !.cantidad_restante = <<@[1] - usa>>]
         ELSE m : m \in @}]

(* mutant of Usa: the whole lot is taken, whatever is still needed *)
UsaLoteEntero(lote_rest, restante) == lote_rest

(* mutant of Usa: one unit is taken from each lot in turn *)
UsaUno(lote_rest, restante) == 1

(* mutant of Usa: all that is still needed is taken from the lot at hand *)
UsaPedido(lote_rest, restante) == restante

(* quantity taken from a lot holding lote_rest when restante is needed *)
Usa(lote_rest, restante) == Min(lote_rest, restante)

RECURSIVE RecorrerSinFecha(_, _, _, _, _)
(* mutant of Recorrer: the depletion row does not take the expiration date *)
(* of the lot                                                              *)
RecorrerSinFecha(conn, producto_id, lotes, i, restante) ==
    IF i > Len(lotes) \/ restante <= 0
    THEN [conn |-> conn, restante |-> restante]
    ELSE LET lote == lotes[i]
             lote_rest == IntOr0(lote.cantidad_restante)
         IN IF lote_rest <= 0
            THEN RecorrerSinFecha(conn, producto_id, lotes, i + 1, restante)
            ELSE LET usa == Min(lote_rest, restante)
                     c1 == DescontarLote(conn, lote.id, usa)
                     c2 == InsertMovimiento(c1,
                              [id                |-> 0,
                               producto_id       |-> producto_id,
                               cantidad          |-> usa,
                               cantidad_restante |-> NULL,
                               tipo              |-> "salida",
                               fecha_vencimiento |-> NULL,
                               entrada_id        |-> <<lote.id>>])
                 IN RecorrerSinFecha(c2, producto_id, lotes, i + 1,
                                     restante - usa)

RECURSIVE RecorrerNuloEntero(_, _, _, _, _)
(* mutant of Recorrer: a lot whose cantidad_restante is NULL counts as     *)
(* holding its whole cantidad                                              *)
RecorrerNuloEntero(conn, producto_id, lotes, i, restante) ==
    IF i > Len(lotes) \/ restante <= 0
    THEN [conn |-> conn, restante |-> restante]
    ELSE LET lote == lotes[i]
             lote_rest == IF IsNull(lote.cantidad_restante)
                          THEN lote.cantidad
                          ELSE lote.cantidad_restante[1]
         IN IF lote_rest <= 0
            THEN RecorrerNuloEntero(conn, producto_id, lotes, i + 1, restante)
            ELSE LET usa == Min(lote_rest, restante)
                     c1 == DescontarLote(conn, lote.id, usa)
                     c2 == InsertMovimiento(c1,
                              [id                |-> 0,
                               producto_id       |-> producto_id,
                               cantidad          |-> usa,
                               cantidad_restante |-> NULL,
                               tipo              |-> "salida",
                               fecha_vencimiento |-> lote.fecha_vencimiento,
                               entrada_id        |-> <<lote.id>>])
                 IN RecorrerNuloEntero(c2, producto_id, lotes, i + 1,
                                       restante - usa)

RECURSIVE Recorrer(_, _, _, _, _)
(* the for loop over the fetched lots, from position i on *)
Recorrer(conn, producto_id, lotes, i, restante) ==
    IF i > Len(lotes) \/ restante <= 0
    THEN [conn |-> conn, restante |-> restante]
    ELSE LET lote == lotes[i]
             lote_rest == IntOr0(lote.cantidad_restante)
         IN IF lote_rest <= 0
            THEN Recorrer(conn, producto_id, lotes, i + 1, restante)
            ELSE LET usa == Usa(lote_rest, restante)
                     c1 == DescontarLote(conn, lote.id, usa)
                     c2 == InsertMovimiento(c1,
                              [id                |-> 0,
                               producto_id       |-> producto_id,
                               cantidad          |-> usa,
                               cantidad_restante |-> NULL,
                               tipo              |-> "salida",
                               fecha_vencimiento |-> lote.fecha_vencimiento,
                               entrada_id        |-> <<lote.id>>])
                 IN Recorrer(c2, producto_id, lotes, i + 1, restante - usa)

ErrInsuficiente == "Stock insuficiente"
ErrFefo == "No se pudo completar FEFO"
SinError == "ok"

(* mutant of consumir_stock_fefo: the comparison with the cached total is  *)
(* missing and the walk starts at once                                     *)
consumir_sin_chequeo(conn, producto_id, cantidad_a_vender) ==
    IF cantidad_a_vender <= 0
    THEN [conn |-> conn, error |-> SinError, nsql |-> 0]
    ELSE LET w == Recorrer(conn, producto_id, LotesFefo(conn, producto_id),
                           1, cantidad_a_vender)
             n == 1 + 2 * (w.conn.seq["movimientos_stock"]
                           - conn.seq["movimientos_stock"])
         IN IF w.restante > 0
            THEN [conn |-> w.conn, error |-> ErrFefo, nsql |-> n]
            ELSE [conn |-> w.conn, error |-> SinError, nsql |-> n]

(* mutant of consumir_stock_fefo: the cached total is read before the      *)
(* quantity is looked at                                                   *)
consumir_lee_primero(conn, producto_id, cantidad_a_vender) ==
    LET disponible == IntOr0(conn.productos[producto_id])
    IN IF cantidad_a_vender <= 0
       THEN [conn |-> conn, error |-> SinError, nsql |-> 1]
       ELSE IF disponible < cantidad_a_vender
            THEN [conn |-> conn, error |-> ErrInsuficiente, nsql |-> 1]
            ELSE LET w == Recorrer(conn, producto_id,
                                   LotesFefo(conn, producto_id), 1,
                                   cantidad_a_vender)
                     n == 2 + 2 * (w.conn.seq["movimientos_stock"]
                                   - conn.seq["movimientos_stock"])
                 IN IF w.restante > 0
                    THEN [conn |-> w.conn, error |-> ErrFefo, nsql |-> n]
                    ELSE [conn |-> w.conn, error |-> SinError, nsql |-> n]

(* mutant of consumir_stock_fefo: a walk that runs out of lots returns     *)
(* with what it could take instead of raising                              *)
consumir_recorta(conn, producto_id, cantidad_a_vender) ==
    IF cantidad_a_vender <= 0
    THEN [conn |-> conn, error |-> SinError, nsql |-> 0]
    ELSE LET disponible == IntOr0(conn.productos[producto_id])
         IN IF disponible < cantidad_a_vender
            THEN [conn |-> conn, error |-> ErrInsuficiente, nsql |-> 1]
            ELSE LET w == Recorrer(conn, producto_id,
                                   LotesFefo(conn, producto_id), 1,
                                   cantidad_a_vender)
                     n == 2 + 2 * (w.conn.seq["movimientos_stock"]
                                   - conn.seq["movimientos_stock"])
                 IN [conn |-> w.conn, error |-> SinError, nsql |-> n]

(* consumir_stock_fefo on the connection conn: the connection with the     *)
(* statements executed so far pending in its transaction, the ValueError   *)
(* raised (SinError when it returns), and the number of SQL statements     *)
(* it executed                                                             *)
consumir_stock_fefo(conn, producto_id, cantidad_a_vender) ==
    IF cantidad_a_vender <= 0
    THEN [conn |-> conn, error |-> SinError, nsql |-> 0]
    ELSE LET disponible == IntOr0(conn.productos[producto_id])
         IN IF disponible < cantidad_a_vender
            THEN [conn |-> conn, error |-> ErrInsuficiente, nsql |-> 1]
            ELSE LET w == Recorrer(conn, producto_id,
                                   LotesFefo(conn, producto_id), 1,
                                   cantidad_a_vender)
                     n == 2 + 2 * (w.conn.seq["movimientos_stock"]
                                   - conn.seq["movimientos_stock"])
                 IN IF w.restante > 0
                    THEN [conn |-> w.conn, error |-> ErrFefo, nsql |-> n]
                    ELSE [conn |-> w.conn, error |-> SinError, nsql |-> n]

(* Python values handed back to a caller: None, or a list *)
None == [tipo |-> "None", valor |-> <<>>]

Lista(valor) == [tipo |-> "list", valor |-> valor]

(* what a call of consumir_stock_fefo that raises nothing evaluates to:    *)
(* its only return statement carries no value and the end of the body is   *)
(* reached without one                                                     *)
ValorDevuelto(conn, producto_id, cantidad_a_vender) == None

(* ------------------------------ ventas (POST) ------------------------- *)
(* mutant of ItemsValidos: no line is dropped *)
ItemsSinFiltro(form) == form

(* a line of the form whose cantidad is not positive is dropped            *)
ItemsValidos(form) == SelectSeq(form, LAMBDA it : it.cantidad > 0)

(* one turn of the loop of the try block: the allocator, then the          *)
(* UPDATE of the cached total                                              *)
VentaLinea(conn, it) ==
    LET r == consumir_stock_fefo(conn, it.producto, it.cantidad)
    IN IF r.error # SinError
       THEN r
       ELSE [r EXCEPT !.conn = UpdateCantidad(@, it.producto, -it.cantidad)]

RECURSIVE DescargarSaltando(_, _, _)
(* mutant of DescargarItems: the try block is inside the loop, a line      *)
(* whose allocation fails is undone alone and the loop goes on             *)
DescargarSaltando(conn, items, i) ==
    IF i > Len(items)
    THEN [conn |-> conn, error |-> SinError]
    ELSE LET r == VentaLinea(conn, items[i])
         IN IF r.error # SinError
            THEN DescargarSaltando(conn, items, i + 1)
            ELSE DescargarSaltando(r.conn, items, i + 1)

RECURSIVE DescargarTotalAlFinal(_, _, _)
(* mutant of DescargarItems: the cached total is lowered after the loop,   *)
(* so every line is checked against the total the sale found               *)
DescargarTotalAlFinal(conn, items, i) ==
    IF i > Len(items)
    THEN [conn |-> conn, error |-> SinError]
    ELSE LET r == consumir_stock_fefo(conn, items[i].producto,
                                      items[i].cantidad)
         IN IF r.error # SinError
            THEN [conn |-> r.conn, error |-> r.error]
            ELSE LET s == DescargarTotalAlFinal(r.conn, items, i + 1)
                 IN IF s.error # SinError
                    THEN s
                    ELSE [conn |-> UpdateCantidad(s.conn, items[i].producto,
                                                  -items[i].cantidad),
                          error |-> SinError]

RECURSIVE DescargarItems(_, _, _)
(* the loop of the try block from item i on; it stops at the first         *)
(* ValueError                                                              *)
DescargarItems(conn, items, i) ==
    IF i > Len(items)
    THEN [conn |-> conn, error |-> SinError]
    ELSE LET r == VentaLinea(conn, items[i])
         IN IF r.error # SinError
            THEN [conn |-> r.conn, error |-> r.error]
            ELSE DescargarItems(r.conn, items, i + 1)

RECURSIVE InsertVentaItems(_, _, _, _)
(* INSERT INTO ventas_items, one row per item *)
InsertVentaItems(conn, venta_id, items, i) ==
    IF i > Len(items)
    THEN conn
    ELSE LET id == NextId(conn, "ventas_items")
             c == [conn EXCEPT
                     !.ventas_items = @ \cup
                         {[id          |-> id,
                           venta_id    |-> venta_id,
                           producto_id |-> items[i].producto,
                           cantidad    |-> items[i].cantidad]},
                     !.seq["ventas_items"] = id]
         IN InsertVentaItems(c, venta_id, items, i + 1)

(* INSERT INTO ventas, then the items *)
InsertVenta(conn, items) ==
    LET venta_id == NextId(conn, "ventas")
        c == [conn EXCEPT !.ventas = @ \cup {venta_id},
                          !.seq["ventas"] = venta_id]
    IN InsertVentaItems(c, venta_id, items, 1)

(* mutant of Rollback: the pending statements are kept *)
RollbackOlvidado(conn, d) == conn

(* conn.rollback(): the pending statements of conn are dropped and the     *)
(* file keeps the content d it had at the last commit                      *)
Rollback(conn, d) == d

(* conn.commit(): the pending statements of conn become the file           *)
Commit(conn) == conn

FlashSinItems == "No se agrego ningun item valido"
FlashVenta == "Venta registrada"

(* mutant of ventas: each line is committed as soon as it is allocated, so *)
(* the rollback of a failed line keeps the lines before it                 *)
ventas_commit_por_linea(d, form) ==
    LET items == ItemsValidos(form)
    IN IF Len(items) = 0
       THEN [db |-> d, flash |-> FlashSinItems]
       ELSE LET r == DescargarItems(d, items, 1)
                hechas == {k \in 0..Len(items) :
                             DescargarItems(d, SubSeq(items, 1, k), 1).error
                               = SinError}
                k == CHOOSE x \in hechas : \A y \in hechas : y <= x
                base == DescargarItems(d, SubSeq(items, 1, k), 1).conn
            IN IF r.error # SinError
               THEN [db |-> Rollback(r.conn, base), flash |-> r.error]
               ELSE [db |-> Commit(InsertVenta(r.conn, items)),
                     flash |-> FlashVenta]

(* POST /ventas with a seller and the lines form, on the file d *)
ventas(d, form) ==
    LET items == ItemsValidos(form)
    IN IF Len(items) = 0
       THEN [db |-> d, flash |-> FlashSinItems]
       ELSE LET r == DescargarItems(d, items, 1)
            IN IF r.error # SinError
               THEN [db |-> Rollback(r.conn, d), flash |-> r.error]
               ELSE [db |-> Commit(InsertVenta(r.conn, items)),
                     flash |-> FlashVenta]

RECURSIVE ReponerItems(_, _)
(* the UPDATEs of the mutant ventas_delete_repone *)
ReponerItems(conn, items) ==
    IF items = {} THEN conn
    ELSE LET it == CHOOSE x \in items : TRUE
         IN ReponerItems(UpdateCantidad(conn, it.producto_id, it.cantidad),
                         items \ {it})

(* mutant of ventas_delete: the quantities of the deleted lines are put    *)
(* back into productos.cantidad                                            *)
ventas_delete_repone(d, venta_id) ==
    LET items == {it \in d.ventas_items : it.venta_id = venta_id}
    IN [db |-> Commit([ReponerItems(d, items) EXCEPT
                         !.ventas_items = @ \ items,
                         !.ventas = @ \ {venta_id}]),
        flash |-> "Venta eliminada"]

(* POST /ventas/delete/<venta_id> *)
ventas_delete(d, venta_id) ==
    [db |-> Commit([d EXCEPT
                      !.ventas_items = {it \in @ : it.venta_id # venta_id},
                      !.ventas = @ \ {venta_id}]),
     flash |-> "Venta eliminada"]

(* ------------------------------ devoluciones -------------------------- *)
RECURSIVE InsertDevolucionReponeLote(_, _, _, _)
(* mutant of InsertDevolucionItems: the returned quantity is also put back *)
(* into a lot of the product, the one with the greatest id                 *)
InsertDevolucionReponeLote(conn, devolucion_id, items, i) ==
    IF i > Len(items)
    THEN conn
    ELSE LET id == NextId(conn, "devoluciones_items")
             c == [conn EXCEPT
                     !.devoluciones_items = @ \cup
                         {[id            |-> id,
                           devolucion_id |-> devolucion_id,
                           producto_id   |-> items[i].producto,
                           cantidad      |-> items[i].cantidad]},
                     !.seq["devoluciones_items"] = id]
             c2 == UpdateCantidad(c, items[i].producto, items[i].cantidad)
             lotes == Entradas(c2, items[i].producto)
             c3 == IF lotes = {} THEN c2
                   ELSE DescontarLote(c2,
                            (CHOOSE l \in lotes :
                                \A o \in lotes : o.id <= l.id).id,
                            -items[i].cantidad)
         IN InsertDevolucionReponeLote(c3, devolucion_id, items, i + 1)

RECURSIVE InsertDevolucionItems(_, _, _, _)
(* per item: INSERT INTO devoluciones_items, then the restock UPDATE *)
InsertDevolucionItems(conn, devolucion_id, items, i) ==
    IF i > Len(items)
    THEN conn
    ELSE LET id == NextId(conn, "devoluciones_items")
             c == [conn EXCEPT
                     !.devoluciones_items = @ \cup
                         {[id            |-> id,
                           devolucion_id |-> devolucion_id,
                           producto_id   |-> items[i].producto,
                           cantidad      |-> items[i].cantidad]},
                     !.seq["devoluciones_items"] = id]
             c2 == UpdateCantidad(c, items[i].producto, items[i].cantidad)
         IN InsertDevolucionItems(c2, devolucion_id, items, i + 1)

FlashSinRenglon == "No se agrego ningun renglon valido"
FlashDevolucion == "Devolucion registrada"

(* POST /devoluciones with a seller and the lines form *)
devoluciones(d, form) ==
    LET items == ItemsValidos(form)
    IN IF Len(items) = 0
       THEN [db |-> d, flash |-> FlashSinRenglon]
       ELSE LET devolucion_id == NextId(d, "devoluciones_cab")
                c == [d EXCEPT !.devoluciones_cab = @ \cup {devolucion_id},
                               !.seq["devoluciones_cab"] = devolucion_id]
            IN [db |-> Commit(InsertDevolucionItems(c, devolucion_id,
                                                    items, 1)),
                flash |-> FlashDevolucion]

(* mutant of RevertirItems: the deletion of a return leaves the cached     *)
(* totals as they are                                                      *)
RevertirNada(conn, items) == conn

RECURSIVE RevertirItems(_, _)
(* per item of the return: UPDATE productos SET cantidad = cantidad - ?    *)
RevertirItems(conn, items) ==
    IF items = {} THEN conn
    ELSE LET it == CHOOSE x \in items : TRUE
         IN RevertirItems(UpdateCantidad(conn, it.producto_id, -it.cantidad),
                          items \ {it})

(* POST /devoluciones/delete with id = did *)
devoluciones_delete(d, did) ==
    LET items == {it \in d.devoluciones_items : it.devolucion_id = did}
        c == RevertirItems(d, items)
    IN [db |-> Commit([c EXCEPT
                         !.devoluciones_items = @ \ items,
                         !.devoluciones_cab = @ \ {did}]),
        flash |-> "Devolucion eliminada"]

(* ------------------------------ stock (POST) -------------------------- *)
FlashCantidad == "La cantidad debe ser mayor a 0"
FlashStock == "Stock actualizado exitosamente"

(* mutant of stock_ingreso: the lot is inserted and the cached total is    *)
(* left as it was                                                          *)
stock_ingreso_sin_total(d, producto_id, cantidad, fecha_vencimiento) ==
    IF cantidad <= 0
    THEN [db |-> d, flash |-> FlashCantidad]
    ELSE [db |-> Commit(InsertMovimiento(d,
                        [id                |-> 0,
                         producto_id       |-> producto_id,
                         cantidad          |-> cantidad,
                         cantidad_restante |-> <<cantidad>>,
                         tipo              |-> "entrada",
                         fecha_vencimiento |-> fecha_vencimiento,
                         entrada_id        |-> NULL])),
          flash |-> FlashStock]

(* op = ingreso *)
stock_ingreso(d, producto_id, cantidad, fecha_vencimiento) ==
    IF cantidad <= 0
    THEN [db |-> d, flash |-> FlashCantidad]
    ELSE LET c == UpdateCantidad(d, producto_id, cantidad)
         IN [db |-> Commit(InsertMovimiento(c,
                        [id                |-> 0,
                         producto_id       |-> producto_id,
                         cantidad          |-> cantidad,
                         cantidad_restante |-> <<cantidad>>,
                         tipo              |-> "entrada",
                         fecha_vencimiento |-> fecha_vencimiento,
                         entrada_id        |-> NULL])),
             flash |-> FlashStock]

(* op = nuevo: INSERT INTO productos (..., cantidad, ...) VALUES (..., 0, ...) *)
stock_nuevo(d) ==
    LET id == NextId(d, "productos")
    IN [db |-> Commit([d EXCEPT !.productos[id] = <<0>>,
                                !.seq["productos"] = id]),
        flash |-> "Producto creado correctamente"]

FlashNoProducto == "No se encontro el producto a eliminar"
FlashConReferencias == "No se puede eliminar: el producto tiene movimientos"

(* op = eliminar *)
stock_eliminar(d, producto_id_del) ==
    IF ~HayProducto(d, producto_id_del)
    THEN [db |-> d, flash |-> FlashNoProducto]
    ELSE LET refs ==
               Cardinality({it \in d.ventas_items :
                               it.producto_id = producto_id_del})
               + Cardinality({it \in d.devoluciones_items :
                               it.producto_id = producto_id_del})
         IN IF refs > 0
            THEN [db |-> d, flash |-> FlashConReferencias]
            ELSE [db |-> Commit([d EXCEPT
                          !.movimientos_stock =
                              {m \in @ : m.producto_id # producto_id_del},
                          !.productos[producto_id_del] = NULL]),
                  flash |-> "Producto eliminado correctamente"]

(* ------------------------------ requests ------------------------------ *)
Lineas(cants) == [producto : ProdIds, cantidad : cants]

Forms(cants, largo) ==
    UNION {[1..n -> Lineas(cants)] : n \in 1..largo}

(* what the last request was and what it answered: the handler, its       *)
(* form fields, the message flashed, the file as the handler found it      *)
(* (antes), and for a sale whether the request before it was the same      *)
(* sale and was refused for insufficient stock (repite)                    *)
Respuesta(op, form, fecha, id, flash, d) ==
    [op |-> op, form |-> form, fecha |-> fecha, id |-> id, flash |-> flash,
     antes |-> d,
     repite |-> /\ op = "ventas"
                /\ last.op = op
                /\ last.form = form
                /\ last.flash = ErrInsuficiente]

(* the caps that keep the rowid counters and the tables finite *)
DentroDeCotas(d, maxLotes, maxVentas) ==
    /\ Cardinality({m \in d.movimientos_stock : m.tipo = "entrada"})
          <= maxLotes
    /\ d.seq["ventas"] <= maxVentas
    /\ d.seq["devoluciones_cab"] <= MaxDev
    /\ d.seq["productos"] <= MaxProd

(* a connection of a sale request that is not being served *)
SinPedido == [pc |-> "idle", items |-> <<>>, lotes |-> <<>>, pend |-> init_db]

Init ==
    /\ db = init_db
    /\ last = [op |-> "inicio", form |-> <<>>, fecha |-> NULL, id |-> 0,
               flash |-> "", antes |-> init_db, repite |-> FALSE]
    /\ conns = [c \in ConnIds |-> SinPedido]

(* POST /ventas with one of forms *)
VentasCon(forms, maxLotes, maxVentas) ==
    \E form \in forms :
        LET d == initialize_database(db)
            r == ventas(d, form)
        IN /\ DentroDeCotas(r.db, maxLotes, maxVentas)
           /\ db' = r.db
           /\ UNCHANGED conns
           /\ last' = Respuesta("ventas", form, NULL, 0, r.flash, d)

Ventas == VentasCon(Forms(CantVenta, MaxItems), MaxLotes, MaxVentas)

VentasDelete ==
    \E venta_id \in 1..MaxVentas :
        LET d == initialize_database(db)
            r == ventas_delete(d, venta_id)
        IN /\ db' = r.db
           /\ UNCHANGED conns
           /\ last' = Respuesta("ventas_delete", <<>>, NULL, venta_id,
                                r.flash, d)

Devoluciones ==
    \E form \in Forms(CantDev, MaxRenglones) :
        LET d == initialize_database(db)
            r == devoluciones(d, form)
        IN /\ DentroDeCotas(r.db, MaxLotes, MaxVentas)
           /\ db' = r.db
           /\ UNCHANGED conns
           /\ last' = Respuesta("devoluciones", form, NULL, 0, r.flash, d)

DevolucionesDelete ==
    \E did \in 1..MaxDev :
        LET d == initialize_database(db)
            r == devoluciones_delete(d, did)
        IN /\ db' = r.db
           /\ UNCHANGED conns
           /\ last' = Respuesta("devoluciones_delete", <<>>, NULL, did,
                                r.flash, d)

(* POST /stock, op = ingreso, with a quantity of cants and an expiration   *)
(* date of fechas or none                                                  *)
StockIngresoCon(cants, fechas, maxLotes, maxVentas) ==
    \E producto_id \in ProdIds, cantidad \in cants,
       fecha_vencimiento \in fechas \cup {NULL} :
        LET d == initialize_database(db)
            r == stock_ingreso(d, producto_id, cantidad, fecha_vencimiento)
        IN /\ DentroDeCotas(r.db, maxLotes, maxVentas)
           /\ db' = r.db
           /\ UNCHANGED conns
           /\ last' = Respuesta("stock_ingreso",
                                <<[producto |-> producto_id,
                                   cantidad |-> cantidad]>>,
                                fecha_vencimiento, 0, r.flash, d)

StockIngreso == StockIngresoCon(CantIngreso, Fechas, MaxLotes, MaxVentas)

StockNuevo ==
    LET d == initialize_database(db)
        r == stock_nuevo(d)
    IN /\ d.seq["productos"] < MaxProd
       /\ db' = r.db
       /\ UNCHANGED conns
       /\ last' = Respuesta("stock_nuevo", <<>>, NULL, 0, r.flash, d)

StockEliminar ==
    \E producto_id_del \in ProdIds :
        LET d == initialize_database(db)
            r == stock_eliminar(d, producto_id_del)
        IN /\ db' = r.db
           /\ UNCHANGED conns
           /\ last' = Respuesta("stock_eliminar", <<>>, NULL, producto_id_del,
                                r.flash, d)

Next ==
    \/ Ventas
    \/ VentasDelete
    \/ Devoluciones
    \/ DevolucionesDelete
    \/ StockIngreso
    \/ StockNuevo
    \/ StockEliminar

Spec == Init /\ [][Next]_vars

(* the requests that create products, receive stock, sell and take         *)
(* returns, without the ones that delete                                   *)
NextSinBajas ==
    \/ StockNuevo
    \/ StockIngreso
    \/ Ventas
    \/ Devoluciones

SpecSinBajas == Init /\ [][NextSinBajas]_vars

(* every request but the deletion of a product *)
NextSinEliminar ==
    \/ StockNuevo
    \/ StockIngreso
    \/ Ventas
    \/ VentasDelete
    \/ Devoluciones
    \/ DevolucionesDelete

SpecSinEliminar == Init /\ [][NextSinEliminar]_vars

(* one product, up to MaxLotesEjemplos lots of 3 or 5 units, and one sale  *)
(* of a single line of 4 or MaxLinea units                                 *)
StockIngresoEjemplos ==
    StockIngresoCon(CantIngresoEjemplos, FechasEjemplos, MaxLotesEjemplos, 1)

VentasEjemplos ==
    VentasCon(Forms(CantVentaEjemplos, 1), MaxLotesEjemplos, 1)

NextEjemplos ==
    \/ StockNuevo
    \/ StockIngresoEjemplos
    \/ VentasEjemplos

SpecEjemplos == Init /\ [][NextEjemplos]_vars

(* ------------------------------ concurrent sales ---------------------- *)
(* Sale requests served at the same time, each on the connection that      *)
(* get_db_connection opens for it.  A connection is in autocommit mode     *)
(* until its first UPDATE or INSERT: its SELECTs read the committed file.  *)
(* The first write opens the transaction and takes the write lock of the   *)
(* file, which one connection holds at a time; what it writes is pending   *)
(* (pend) and becomes the file at conn.commit().  From its first write to  *)
(* its commit a sale reads and writes only its own pending copy, so that   *)
(* stretch is one step.                                                    *)
ErrLocked == "database is locked"

(* another connection holds the write lock *)
HayEscritor(c) == \E o \in ConnIds \ {c} : conns[o].pc = "commit"

Quieto == \A c \in ConnIds : conns[c].pc = "idle"

(* the request arrives: before_request runs ensure_schema on a connection  *)
(* of its own (its OperationalError is swallowed when the file is locked), *)
(* then the handler parses the lines                                       *)
VentaInicia(c) ==
    \E form \in Forms(0..MaxCant, MaxItemsConc) :
        LET d == IF HayEscritor(c) THEN db ELSE initialize_database(db)
            items == ItemsValidos(form)
        IN /\ conns[c].pc = "idle"
           /\ d.seq["ventas"]
                + Cardinality({o \in ConnIds : conns[o].pc # "idle"})
                < MaxConn
           /\ db' = d
           /\ IF Len(items) = 0
              THEN /\ UNCHANGED conns
                   /\ last' = Respuesta("ventas", form, NULL, c,
                                        FlashSinItems, d)
              ELSE /\ conns' = [conns EXCEPT ![c] =
                                  [SinPedido EXCEPT !.pc = "leer",
                                                    !.items = items]]
                   /\ UNCHANGED last

(* consumir_stock_fefo of the first item: SELECT cantidad FROM productos   *)
(* and the comparison with the quantity asked for                          *)
VentaLee(c) ==
    LET it == conns[c].items[1]
        disponible == IntOr0(db.productos[it.producto])
    IN /\ conns[c].pc = "leer"
       /\ db' = db
       /\ IF disponible < it.cantidad
          THEN /\ conns' = [conns EXCEPT ![c] = SinPedido]
               /\ last' = Respuesta("ventas", conns[c].items, NULL, c,
                                    ErrInsuficiente, db)
          ELSE /\ conns' = [conns EXCEPT ![c].pc = "lotes"]
               /\ UNCHANGED last

(* the SELECT of the lots, fetched whole *)
VentaLotes(c) ==
    /\ conns[c].pc = "lotes"
    /\ conns' = [conns EXCEPT
                   ![c].pc = "escribir",
                   ![c].lotes = LotesFefo(db, conns[c].items[1].producto)]
    /\ UNCHANGED <<db, last>>

(* the walk over the lots fetched, on the file as it is now, then the      *)
(* UPDATE of the cached total, the other items and the INSERTs of the sale *)
VentaEscribir(d, items, lotes) ==
    LET it == items[1]
        w == Recorrer(d, it.producto, lotes, 1, it.cantidad)
    IN IF w.restante > 0
       THEN [conn |-> w.conn, error |-> ErrFefo]
       ELSE DescargarItems(UpdateCantidad(w.conn, it.producto, -it.cantidad),
                           Tail(items), 1)

(* the walk has a statement to execute *)
Escribe(c) ==
    \E i \in DOMAIN conns[c].lotes :
        IntOr0(conns[c].lotes[i].cantidad_restante) > 0

VentaEscribe(c) ==
    LET r == VentaEscribir(db, conns[c].items, conns[c].lotes)
    IN /\ conns[c].pc = "escribir"
       /\ Escribe(c) => ~HayEscritor(c)
       /\ IF r.error # SinError
          THEN /\ db' = Rollback(r.conn, db)
               /\ conns' = [conns EXCEPT ![c] = SinPedido]
               /\ last' = Respuesta("ventas", conns[c].items, NULL, c,
                                    r.error, db)
          ELSE /\ db' = db
               /\ conns' = [conns EXCEPT
                              ![c].pc = "commit",
                              ![c].pend = InsertVenta(r.conn, conns[c].items)]
               /\ UNCHANGED last

(* the first write waits for the lock until the busy timeout ends:         *)
(* sqlite3.OperationalError, which the handler does not catch; its finally *)
(* closes the connection                                                   *)
VentaBloqueada(c) ==
    /\ conns[c].pc = "escribir"
    /\ Escribe(c)
    /\ HayEscritor(c)
    /\ conns' = [conns EXCEPT ![c] = SinPedido]
    /\ last' = Respuesta("ventas", conns[c].items, NULL, c, ErrLocked, db)
    /\ UNCHANGED db

VentaCommit(c) ==
    /\ conns[c].pc = "commit"
    /\ db' = Commit(conns[c].pend)
    /\ conns' = [conns EXCEPT ![c] = SinPedido]
    /\ last' = Respuesta("ventas", conns[c].items, NULL, c, FlashVenta, db)

StockNuevoQuieto == Quieto /\ StockNuevo

StockIngresoQuieto ==
    Quieto /\ StockIngresoCon(CantIngreso, Fechas, MaxLotes, MaxConn)

NextConcurrente ==
    \/ StockNuevoQuieto
    \/ StockIngresoQuieto
    \/ \E c \in ConnIds : VentaInicia(c)
    \/ \E c \in ConnIds : VentaLee(c)
    \/ \E c \in ConnIds : VentaLotes(c)
    \/ \E c \in ConnIds : VentaEscribe(c)
    \/ \E c \in ConnIds : VentaBloqueada(c)
    \/ \E c \in ConnIds : VentaCommit(c)

SpecConcurrente == Init /\ [][NextConcurrente]_vars

(* ---------------- the file as other writers left it ------------------- *)
(* movimientos_stock of database.py has no cantidad_restante: the rows a   *)
(* version before the FEFO columns wrote get NULL when ensure_schema adds  *)
(* the column, and two overlapping sales leave a value below 0.  The two   *)
(* functions that read the column are applied to such files directly.      *)
RestantesArchivo == {NULL, <<-1>>, <<0>>, <<1>>, <<MaxCant>>}

LotesArchivo(n) ==
    {{[id                |-> i,
       producto_id       |-> 1,
       cantidad          |-> MaxCant,
       cantidad_restante |-> rs[i],
       tipo              |-> "entrada",
       fecha_vencimiento |-> fs[i],
       entrada_id        |-> NULL] : i \in 1..n} :
        rs \in [1..n -> RestantesArchivo],
        fs \in [1..n -> Fechas \cup {NULL}]}

Archivos ==
    {[init_db EXCEPT !.productos[1] = <<cantidad>>,
                     !.seq["productos"] = 1,
                     !.movimientos_stock = lotes,
                     !.seq["movimientos_stock"] = Cardinality(lotes)] :
        cantidad \in {MaxCant, 2 * MaxCant},
        lotes \in UNION {LotesArchivo(n) : n \in 0..MaxLotesArchivo}}

InitArchivo ==
    /\ db \in Archivos
    /\ last = [op |-> "inicio", form |-> <<>>, fecha |-> NULL, id |-> 0,
               flash |-> "", antes |-> init_db, repite |-> FALSE]
    /\ conns = [c \in ConnIds |-> SinPedido]

(* consumir_stock_fefo called on a connection to the file, committed when  *)
(* it returns and rolled back when it raises                               *)
ConsumirArchivo ==
    \E it \in Lineas(CantVenta) :
        LET r == consumir_stock_fefo(db, it.producto, it.cantidad)
        IN /\ db' = IF r.error = SinError THEN Commit(r.conn)
                    ELSE Rollback(r.conn, db)
           /\ UNCHANGED conns
           /\ last' = Respuesta("consumir_stock_fefo", <<it>>, NULL, 0,
                                r.error, db)

(* ensure_schema called on the file *)
EnsureSchemaArchivo ==
    /\ db' = ensure_schema(db)
    /\ UNCHANGED conns
    /\ last' = Respuesta("ensure_schema", <<>>, NULL, 0, "", db)

NextArchivo ==
    \/ ConsumirArchivo
    \/ EnsureSchemaArchivo

SpecArchivo == InitArchivo /\ [][NextArchivo]_vars

(* ====================================================================== *)
(* Properties                                                              *)
(* ====================================================================== *)

RECURSIVE SumaCantidad(_)
(* SUM(cantidad) over a set of rows *)
SumaCantidad(S) ==
    IF S = {} THEN 0
    ELSE LET x == CHOOSE y \in S : TRUE
         IN x.cantidad + SumaCantidad(S \ {x})

RECURSIVE SumaRestante(_)
(* SUM(cantidad_restante) over a set of rows, NULL counting nothing *)
SumaRestante(S) ==
    IF S = {} THEN 0
    ELSE LET x == CHOOSE y \in S : TRUE
         IN IntOr0(x.cantidad_restante) + SumaRestante(S \ {x})

(* the sale lines with a positive quantity that a form can carry *)
LineasPositivas == Lineas(1..MaxLinea)

(* the depletion rows that conn holds and d did not *)
NuevasSalidas(d, conn) ==
    {m \in Salidas(conn) : m.id > d.seq["movimientos_stock"]}

(* the row of movimientos_stock with this id *)
Fila(conn, id) == CHOOSE m \in conn.movimientos_stock : m.id = id

(* the lots of the product whose cantidad_restante the allocation lowered *)
Tocados(d, conn, producto_id) ==
    {l \in Entradas(d, producto_id) :
        IntOr0(Fila(conn, l.id).cantidad_restante)
            < IntOr0(l.cantidad_restante)}

(* the lots an allocation can take from: tracked, with something left *)
ConStock(d, producto_id) ==
    {l \in Entradas(d, producto_id) : IntOr0(l.cantidad_restante) > 0}

Drenado(conn, l) == Fila(conn, l.id).cantidad_restante = <<0>>

(* the connection of a sale as its item k finds it *)
ConnAntesDeItem(d, items, k) ==
    IF k = 1 THEN d ELSE DescargarItems(d, SubSeq(items, 1, k - 1), 1).conn

RECURSIVE SumaLineas(_)
SumaLineas(items) ==
    IF Len(items) = 0 THEN 0
    ELSE Head(items).cantidad + SumaLineas(Tail(items))

VentaHecha == last.op = "ventas" /\ last.flash = FlashVenta

(* the last request was a sale that got through, and the allocation of    *)
(* one of its lines took from two lots, first from a then from b           *)
UltimaVentaTomo(P(_, _)) ==
    /\ VentaHecha
    /\ LET items == ItemsValidos(last.form)
       IN \E k \in 1..Len(items) :
            LET c0 == ConnAntesDeItem(last.antes, items, k)
                r == VentaLinea(c0, items[k])
            IN \E s1, s2 \in NuevasSalidas(c0, r.conn) :
                 /\ s1.id < s2.id
                 /\ P(Fila(c0, s1.entrada_id[1]), Fila(c0, s2.entrada_id[1]))

(* C1: a sale line of quantity q > 0 that goes through takes from the lots *)
(* quantities that add up to exactly q (as depletion rows and as lot       *)
(* decrements) and lowers productos.cantidad by exactly q, however many    *)
(* lots it touched; a whole sale lowers it by the sum of its lines.        *)
C1_Conservacion ==
    /\ \A it \in LineasPositivas :
         LET r == VentaLinea(db, it)
         IN r.error = SinError =>
              /\ SumaCantidad(NuevasSalidas(db, r.conn)) = it.cantidad
              /\ SumaRestante(Entradas(db, it.producto))
                   - SumaRestante(Entradas(r.conn, it.producto)) = it.cantidad
              /\ r.conn.productos[it.producto]
                   = <<db.productos[it.producto][1] - it.cantidad>>
    /\ VentaHecha =>
         LET q == SumaLineas(ItemsValidos(last.form))
         IN /\ SumaCantidad(NuevasSalidas(last.antes, db)) = q
            /\ \A p \in ProdIds :
                 HayProducto(db, p) =>
                   db.productos[p][1] + SumaCantidad(
                       {m \in NuevasSalidas(last.antes, db) : m.producto_id = p})
                     = last.antes.productos[p][1]

C1_Witness ==
    /\ UltimaVentaTomo(LAMBDA a, b : a.id # b.id)
    /\ SumaCantidad(NuevasSalidas(last.antes, db)) >= 3

(* C2: in every committed state each product's cantidad is the sum of the  *)
(* cantidad_restante of its entrada rows.                                  *)
C2_TotalEnCache ==
    \A p \in ProdIds :
        HayProducto(db, p) =>
            db.productos[p][1] = SumaRestante(Entradas(db, p))

(* C3: an allocation that goes through touches a dated lot only if every   *)
(* lot of the product with stock and a strictly earlier expiration date    *)
(* is at 0 when it ends, and its depletion rows come in ascending          *)
(* expiration order.                                                       *)
C3_FefoFechas ==
    \A it \in LineasPositivas :
        LET r == VentaLinea(db, it)
        IN r.error = SinError =>
             /\ \A l \in Tocados(db, r.conn, it.producto) :
                  \A e \in ConStock(db, it.producto) :
                     ( /\ ~IsNull(l.fecha_vencimiento)
                       /\ ~IsNull(e.fecha_vencimiento)
                       /\ TextoMenor(e.fecha_vencimiento, l.fecha_vencimiento) )
                     => Drenado(r.conn, e)
             /\ \A s1, s2 \in NuevasSalidas(db, r.conn) :
                  ( /\ s1.id < s2.id
                    /\ ~IsNull(s1.fecha_vencimiento)
                    /\ ~IsNull(s2.fecha_vencimiento) )
                  => ~TextoMenor(s2.fecha_vencimiento, s1.fecha_vencimiento)

(* a lot as stock_ingreso leaves it *)
LoteNuevo(id, cantidad, fecha_vencimiento) ==
    [id |-> id, producto_id |-> 1, cantidad |-> cantidad,
     cantidad_restante |-> <<cantidad>>, tipo |-> "entrada",
     fecha_vencimiento |-> fecha_vencimiento, entrada_id |-> NULL]

(* a depletion row *)
Salida(id, cantidad, entrada_id, fecha_vencimiento) ==
    [id |-> id, producto_id |-> 1, cantidad |-> cantidad,
     cantidad_restante |-> NULL, tipo |-> "salida",
     fecha_vencimiento |-> fecha_vencimiento, entrada_id |-> <<entrada_id>>]

(* lots A (5, 2024-03-01), B (5, 2024-01-01), C (5, no date), a sale of 7:  *)
(* 5 from B, then 2 from A, C as it was                                    *)
C3_Witness ==
    /\ VentaHecha
    /\ last.form = <<[producto |-> 1, cantidad |-> 7]>>
    /\ last.antes.movimientos_stock =
          {LoteNuevo(1, 5, <<2024, 3, 1>>), LoteNuevo(2, 5, <<2024, 1, 1>>),
           LoteNuevo(3, 5, NULL)}
    /\ NuevasSalidas(last.antes, db) =
          {Salida(4, 5, 2, <<2024, 1, 1>>), Salida(5, 2, 1, <<2024, 3, 1>>)}
    /\ Fila(db, 1).cantidad_restante = <<3>>
    /\ Fila(db, 2).cantidad_restante = <<0>>
    /\ Fila(db, 3).cantidad_restante = <<5>>

(* C4: an allocation that goes through touches a lot without expiration   *)
(* date only if every dated lot of the product with stock is at 0 when it  *)
(* ends.                                                                   *)
C4_SinFechaAlFinal ==
    \A it \in LineasPositivas :
        LET r == VentaLinea(db, it)
        IN r.error = SinError =>
             /\ \A l \in Tocados(db, r.conn, it.producto) :
                  \A e \in ConStock(db, it.producto) :
                     ( /\ IsNull(l.fecha_vencimiento)
                       /\ ~IsNull(e.fecha_vencimiento) )
                     => Drenado(r.conn, e)
             /\ \A s1, s2 \in NuevasSalidas(db, r.conn) :
                  ( s1.id < s2.id /\ IsNull(s1.fecha_vencimiento) )
                  => IsNull(s2.fecha_vencimiento)

(* lots X (3, no date), Y (3, 2024-06-01), a sale of 4: 3 from Y, then 1   *)
(* from X                                                                  *)
C4_Witness ==
    /\ VentaHecha
    /\ last.form = <<[producto |-> 1, cantidad |-> 4]>>
    /\ last.antes.movimientos_stock =
          {LoteNuevo(1, 3, NULL), LoteNuevo(2, 3, <<2024, 6, 1>>)}
    /\ NuevasSalidas(last.antes, db) =
          {Salida(3, 3, 2, <<2024, 6, 1>>), Salida(4, 1, 1, NULL)}
    /\ Fila(db, 1).cantidad_restante = <<2>>
    /\ Fila(db, 2).cantidad_restante = <<0>>

(* C5: of two lots with stock and the same expiration date (or both        *)
(* without one) the one with the smaller id goes first: the later one is   *)
(* touched only if the earlier one is at 0 when the allocation ends.       *)
C5_DesempatePorId ==
    \A it \in LineasPositivas :
        LET r == VentaLinea(db, it)
        IN r.error = SinError =>
             /\ \A l \in Tocados(db, r.conn, it.producto) :
                  \A e \in ConStock(db, it.producto) :
                     ( /\ e.fecha_vencimiento = l.fecha_vencimiento
                       /\ e.id < l.id )
                     => Drenado(r.conn, e)
             /\ \A s1, s2 \in NuevasSalidas(db, r.conn) :
                  ( /\ s1.id < s2.id
                    /\ s1.fecha_vencimiento = s2.fecha_vencimiento )
                  => s1.entrada_id[1] < s2.entrada_id[1]

C5_Witness ==
    UltimaVentaTomo(LAMBDA a, b :
        /\ a.fecha_vencimiento = b.fecha_vencimiento
        /\ a.id < b.id)

(* the last request was a sale, and the allocation of one of its lines     *)
(* ended with the error err on a connection and a result that satisfy P    *)
UltimaVentaFallo(err, P(_, _, _)) ==
    /\ last.op = "ventas"
    /\ last.flash = err
    /\ LET items == ItemsValidos(last.form)
       IN \E k \in 1..Len(items) :
            LET c0 == ConnAntesDeItem(last.antes, items, k)
                r == consumir_stock_fefo(c0, items[k].producto,
                                         items[k].cantidad)
            IN r.error = err /\ P(c0, r, items[k])

(* C6: an allocation of more than productos.cantidad raises the            *)
(* insufficient-stock error with the connection as it found it (no lot     *)
(* touched, no depletion row, cached total as before), and the sale it     *)
(* belongs to leaves the file as it was.                                   *)
C6_InsuficienteSinCambios ==
    /\ \A it \in LineasPositivas :
         it.cantidad > IntOr0(db.productos[it.producto]) =>
           LET r == consumir_stock_fefo(db, it.producto, it.cantidad)
           IN /\ r.error = ErrInsuficiente
              /\ r.conn = db
              /\ ventas(db, <<it>>) = [db |-> db, flash |-> ErrInsuficiente]
    /\ (last.op = "ventas" /\ last.flash = ErrInsuficiente)
         => db = last.antes

(* refused although the lots of the product hold stock *)
C6_Witness ==
    UltimaVentaFallo(ErrInsuficiente,
        LAMBDA c0, r, it : /\ HayProducto(c0, it.producto)
                           /\ ConStock(c0, it.producto) # {})

(* C7: an allocation of a quantity q <= 0 returns without error and with   *)
(* the connection as it found it; a sale made only of such lines leaves    *)
(* the file as it was, and a sale with some of them does what the sale     *)
(* without them does.                                                      *)
C7_NoPositivaSinEfecto ==
    /\ \A p \in ProdIds, q \in {c \in CantVenta : c <= 0} :
         LET r == consumir_stock_fefo(db, p, q)
         IN r.error = SinError /\ r.conn = db
    /\ last.op = "ventas" =>
         LET positivas == SelectSeq(last.form, LAMBDA it : it.cantidad > 0)
         IN IF Len(positivas) = 0
            THEN db = last.antes /\ last.flash = FlashSinItems
            ELSE [db |-> db, flash |-> last.flash]
                   = ventas(last.antes, positivas)

(* a sale that went through although one of its lines was not positive *)
C7_Witness ==
    /\ VentaHecha
    /\ \E i \in DOMAIN last.form : last.form[i].cantidad <= 0
    /\ \E i \in DOMAIN last.form : last.form[i].cantidad = 0

InvalidQuantity == "InvalidQuantity"

(* C8 as claimed: a negative quantity is rejected with an InvalidQuantity  *)
(* failure before any storage read or write.                               *)
C8_NegativaRechazada ==
    \A i \in DOMAIN last.form :
        (last.op = "ventas" /\ last.form[i].cantidad < 0) =>
            LET r == consumir_stock_fefo(last.antes, last.form[i].producto,
                                         last.form[i].cantidad)
            IN /\ r.error = InvalidQuantity
               /\ r.nsql = 0
               /\ last.flash = InvalidQuantity

(* C8 as amended: a negative quantity is not rejected; the allocator       *)
(* returns without error before any storage read or write, and a sale made *)
(* only of negative lines is answered "no valid item" with the file as it  *)
(* was.                                                                    *)
C8_NegativaSinErrorNiSql ==
    /\ \A p \in ProdIds, q \in {c \in CantVenta : c < 0} :
         LET r == consumir_stock_fefo(db, p, q)
         IN r.error = SinError /\ r.nsql = 0 /\ r.conn = db
    /\ ( /\ last.op = "ventas"
         /\ \A i \in DOMAIN last.form : last.form[i].cantidad < 0 )
       => (last.flash = FlashSinItems /\ db = last.antes)

(* a negative line was sent for a product that has stock *)
C8_Witness ==
    /\ last.op = "ventas"
    /\ \E i \in DOMAIN last.form :
         /\ last.form[i].cantidad < 0
         /\ IntOr0(last.antes.productos[last.form[i].producto]) > 0
         /\ ConStock(last.antes, last.form[i].producto) # {}
    /\ last.flash \in {FlashSinItems, FlashVenta}

(* C9: a sale refused for insufficient stock and sent again at once is     *)
(* refused the same way, and the file after the second refusal is the      *)
(* file before the first.                                                  *)
C9_FalloIdempotente ==
    [][ ( /\ last.op = "ventas"
          /\ last.flash = ErrInsuficiente
          /\ last'.op = "ventas"
          /\ last'.form = last.form )
        => ( /\ last'.flash = ErrInsuficiente
             /\ db' = last.antes ) ]_vars

(* the second refusal, of a sale whose first line alone would go through *)
C9_Witness ==
    /\ last.repite
    /\ UltimaVentaFallo(ErrInsuficiente,
         LAMBDA c0, r, it : c0 # last.antes /\ db = last.antes)

(* C10: an allocation of at most productos.cantidad that the lots cannot   *)
(* cover raises the FEFO error, and the sale it belongs to is rolled back: *)
(* the file is as the sale found it, without the decrements and the        *)
(* depletion rows of the walk.                                             *)
C10_FefoIncompletoRevierte ==
    /\ \A it \in LineasPositivas :
         ( /\ it.cantidad <= IntOr0(db.productos[it.producto])
           /\ SumaRestante(ConStock(db, it.producto)) < it.cantidad )
         => /\ consumir_stock_fefo(db, it.producto, it.cantidad).error
                 = ErrFefo
            /\ ventas(db, <<it>>) = [db |-> db, flash |-> ErrFefo]
    /\ (last.op = "ventas" /\ last.flash = ErrFefo) => db = last.antes

(* the walk had taken from a lot before it ran out of lots *)
C10_Witness ==
    UltimaVentaFallo(ErrFefo,
        LAMBDA c0, r, it : /\ NuevasSalidas(c0, r.conn) # {}
                           /\ Tocados(c0, r.conn, it.producto) # {}
                           /\ db = last.antes)

RECURSIVE PrimerFallo(_, _)
(* the error of the first line of items whose allocation fails when the    *)
(* lines are sold one after the other on conn; SinError when none fails    *)
PrimerFallo(conn, items) ==
    IF Len(items) = 0 THEN SinError
    ELSE LET r == VentaLinea(conn, Head(items))
         IN IF r.error # SinError THEN r.error
            ELSE PrimerFallo(r.conn, Tail(items))

(* C11: when the allocation of any line of a sale fails the whole sale is  *)
(* dropped: the file is as the sale found it (no lot decrement, depletion  *)
(* row or cached-total decrement of the lines before it, no ventas or      *)
(* ventas_items row) and the error is the answer.                          *)
C11_VentaTodoONada ==
    /\ \A form \in Forms(1..MaxCant, MaxItems) :
         PrimerFallo(db, form) # SinError =>
           ventas(db, form) = [db |-> db, flash |-> PrimerFallo(db, form)]
    /\ last.op = "ventas" =>
         LET e == PrimerFallo(last.antes, ItemsValidos(last.form))
         IN e # SinError => (db = last.antes /\ last.flash = e)

(* the second line failed after the first had taken from a lot and lowered *)
(* the cached total on the connection                                      *)
C11_Witness ==
    /\ last.op = "ventas"
    /\ last.flash \in {ErrInsuficiente, ErrFefo}
    /\ LET items == ItemsValidos(last.form)
       IN /\ Len(items) = 2
          /\ LET r == VentaLinea(last.antes, items[1])
             IN /\ r.error = SinError
                /\ NuevasSalidas(last.antes, r.conn) # {}
                /\ r.conn.productos # last.antes.productos
    /\ db = last.antes
    /\ db.ventas = {} /\ db.ventas_items = {}

(* C12: a return of r > 0 units of a product adds exactly r to             *)
(* productos.cantidad and leaves movimientos_stock as it was: no lot gets  *)
(* anything back and no depletion row is changed, removed or added.        *)
C12_DevolucionSoloTotal ==
    /\ \A p \in ProdIds, r \in 1..MaxCant :
         HayProducto(db, p) =>
           LET res == devoluciones(db, <<[producto |-> p, cantidad |-> r]>>)
           IN /\ res.flash = FlashDevolucion
              /\ res.db.productos[p] = <<db.productos[p][1] + r>>
              /\ res.db.movimientos_stock = db.movimientos_stock
    /\ (last.op = "devoluciones" /\ last.flash = FlashDevolucion) =>
         /\ db.movimientos_stock = last.antes.movimientos_stock
         /\ \A p \in ProdIds :
              HayProducto(last.antes, p) =>
                db.productos[p] =
                  <<last.antes.productos[p][1]
                      + SumaLineas(SelectSeq(ItemsValidos(last.form),
                                             LAMBDA it : it.producto = p))>>

(* a return of units that a sale had taken from a lot: the lot stays       *)
(* below its original quantity and the depletion row stays                 *)
C12_Witness ==
    /\ last.op = "devoluciones"
    /\ last.flash = FlashDevolucion
    /\ \E it \in {last.form[i] : i \in DOMAIN last.form} :
         /\ it.cantidad > 0
         /\ HayProducto(last.antes, it.producto)
         /\ db.productos[it.producto][1]
              = last.antes.productos[it.producto][1] + it.cantidad
         /\ \E s \in Salidas(db) :
              /\ s.producto_id = it.producto
              /\ IntOr0(Fila(db, s.entrada_id[1]).cantidad_restante)
                   < Fila(db, s.entrada_id[1]).cantidad

(* the depletion rows taken from the lot l *)
SalidasDe(conn, l) == {s \in Salidas(conn) : s.entrada_id = <<l.id>>}

(* C13: whatever the interleaving of two sales served at the same time, no *)
(* cantidad_restante and no productos.cantidad is below 0 in the file, and *)
(* the depletion rows of a lot take no more than the lot held.             *)
C13_VentasSerializadas ==
    /\ \A p \in ProdIds :
         HayProducto(db, p) => db.productos[p][1] >= 0
    /\ \A p \in ProdIds :
         \A l \in Entradas(db, p) :
            /\ IntOr0(l.cantidad_restante) >= 0
            /\ SumaCantidad(SalidasDe(db, l)) <= l.cantidad

RECURSIVE EnOrden(_)
(* depletion rows as (lot id, quantity taken, expiration date) tuples in   *)
(* the order they were inserted                                            *)
EnOrden(S) ==
    IF S = {} THEN <<>>
    ELSE LET s == CHOOSE x \in S : \A y \in S : x.id <= y.id
         IN <<(<<s.entrada_id[1], s.cantidad, s.fecha_vencimiento>>)>>
              \o EnOrden(S \ {s})

(* C14: an allocation that goes through hands its caller the list of the   *)
(* (lot id, quantity taken, expiration date) tuples of the lots it took    *)
(* from, in depletion order.                                               *)
C14_DevuelveLista ==
    VentaHecha =>
      LET items == ItemsValidos(last.form)
      IN \A k \in 1..Len(items) :
           LET c0 == ConnAntesDeItem(last.antes, items, k)
               r == consumir_stock_fefo(c0, items[k].producto,
                                        items[k].cantidad)
           IN ValorDevuelto(c0, items[k].producto, items[k].cantidad)
                = Lista(EnOrden(NuevasSalidas(c0, r.conn)))

(* every lot of the file, of whatever product *)
Lotes(conn) == {m \in conn.movimientos_stock : m.tipo = "entrada"}

(* C15: no step raises the cantidad_restante of a lot that is in the file  *)
(* before and after it, and a lot at 0 stays at 0.                         *)
C15_RestanteNoCrece ==
    [][ \A l \in Lotes(db) :
          \A n \in Lotes(db') :
             n.id = l.id =>
               /\ IntOr0(n.cantidad_restante) <= IntOr0(l.cantidad_restante)
               /\ (l.cantidad_restante = <<0>>
                     => n.cantidad_restante = <<0>>) ]_vars

(* C16: no step removes a lot from the file, whether it holds stock or is  *)
(* at 0.                                                                   *)
C16_LotesNoSeBorran ==
    [][ \A l \in Lotes(db) : \E n \in Lotes(db') : n.id = l.id ]_vars

(* the lots of the product the allocation took from, that is those a new   *)
(* depletion row points to                                                 *)
ConSalida(d, conn, producto_id) ==
    {l \in Entradas(d, producto_id) : SalidasDe(conn, l) \ Salidas(d) # {}}

(* the lot the last depletion row of the allocation points to *)
UltimoTocado(d, conn) ==
    LET s == CHOOSE x \in NuevasSalidas(d, conn) :
                 \A y \in NuevasSalidas(d, conn) : y.id <= x.id
    IN Fila(d, s.entrada_id[1])

(* C17: an allocation that goes through takes from each lot, in the order  *)
(* of the walk, the smaller of what the lot holds and what is still        *)
(* needed: every lot taken from except the last is at 0 afterwards, the    *)
(* lots taken from are the first ones of the walk, and no lot after the    *)
(* one that completes the quantity is touched.                             *)
C17_RecorridoVoraz ==
    \A it \in LineasPositivas :
        LET r == VentaLinea(db, it)
            lotes == LotesFefo(db, it.producto)
            n == Cardinality(NuevasSalidas(db, r.conn))
        IN r.error = SinError =>
             /\ n >= 1 /\ n <= Len(lotes)
             /\ \A i \in 1..Len(lotes) :
                  LET antes == IntOr0(lotes[i].cantidad_restante)
                      queda == IntOr0(Fila(r.conn, lotes[i].id).cantidad_restante)
                      falta == it.cantidad
                                 - SumaRestante({lotes[j] : j \in 1..(i - 1)})
                  IN /\ i < n => queda = 0
                     /\ i <= n => antes - queda = Min(antes, falta)
                     /\ i > n => queda = antes
             /\ \A l \in ConSalida(db, r.conn, it.producto) :
                  l.id # UltimoTocado(db, r.conn).id => Drenado(r.conn, l)

(* a line took from two lots: the first is at 0, the second keeps stock,   *)
(* and a third lot of the product, later in the walk, is as it was         *)
C17_Witness ==
    /\ UltimaVentaTomo(LAMBDA a, b :
          /\ Fila(db, a.id).cantidad_restante = <<0>>
          /\ IntOr0(Fila(db, b.id).cantidad_restante) > 0)
    /\ \E l \in Lotes(last.antes) :
         /\ IntOr0(l.cantidad_restante) > 0
         /\ Fila(db, l.id) = l

(* the connection as the allocation of a line leaves it, whether it        *)
(* completes, is refused or runs out of lots                               *)
Recorrido(d, it) == consumir_stock_fefo(d, it.producto, it.cantidad).conn

(* C18: the walk of an allocation inserts one 'salida' row per lot it      *)
(* takes from, with the product, the quantity taken (positive, and exactly *)
(* what the lot's cantidad_restante went down by), the id of the lot and   *)
(* the expiration date of the lot; it inserts none for any other lot.      *)
C18_UnaSalidaPorLote ==
    \A it \in LineasPositivas :
        LET conn == Recorrido(db, it)
            nuevas == NuevasSalidas(db, conn)
        IN /\ conn.movimientos_stock \ db.movimientos_stock
                \subseteq nuevas \cup Entradas(conn, it.producto)
           /\ \A s \in nuevas :
                /\ s.producto_id = it.producto
                /\ s.cantidad > 0
                /\ \E l \in Entradas(db, it.producto) : s.entrada_id = <<l.id>>
           /\ \A l \in Lotes(db) :
                LET ss == SalidasDe(conn, l) \ Salidas(db)
                    baja == IntOr0(l.cantidad_restante)
                              - IntOr0(Fila(conn, l.id).cantidad_restante)
                IN /\ Cardinality(ss) <= 1
                   /\ baja = SumaCantidad(ss)
                   /\ \A s \in ss :
                        s.fecha_vencimiento = l.fecha_vencimiento
                   /\ Fila(conn, l.id)
                        = [l EXCEPT !.cantidad_restante = <<IntOr0(@) - baja>>]

(* the last sale took from a dated and from an undated lot and left a lot  *)
(* alone: two depletion rows, with the date of their lot or none           *)
C18_Witness ==
    /\ UltimaVentaTomo(LAMBDA a, b :
          /\ ~IsNull(a.fecha_vencimiento)
          /\ IsNull(b.fecha_vencimiento))
    /\ Cardinality(NuevasSalidas(last.antes, db)) = 2
    /\ \E l \in Lotes(last.antes) :
         /\ IntOr0(l.cantidad_restante) > 0
         /\ SalidasDe(db, l) = {}

(* the quantities a receipt form can carry *)
CantRecibidas == (-1)..MaxCant

(* C19: a receipt of c > 0 units for a product adds one lot with cantidad  *)
(* and cantidad_restante both c, raises productos.cantidad by exactly c in *)
(* the same commit and leaves every other row as it was; a receipt of      *)
(* c <= 0 is refused and changes nothing.                                  *)
C19_IngresoCreaLote ==
    /\ \A p \in ProdIds, c \in CantRecibidas, f \in Fechas \cup {NULL} :
         LET res == stock_ingreso(db, p, c, f)
             lote == [id                |-> NextId(db, "movimientos_stock"),
                      producto_id       |-> p,
                      cantidad          |-> c,
                      cantidad_restante |-> <<c>>,
                      tipo              |-> "entrada",
                      fecha_vencimiento |-> f,
                      entrada_id        |-> NULL]
         IN IF c <= 0
            THEN res = [db |-> db, flash |-> FlashCantidad]
            ELSE HayProducto(db, p) =>
                   /\ res.flash = FlashStock
                   /\ res.db = [db EXCEPT
                         !.productos[p] = <<db.productos[p][1] + c>>,
                         !.movimientos_stock = @ \cup {lote},
                         !.seq["movimientos_stock"] = lote.id]
                   /\ lote \notin db.movimientos_stock
    /\ last.op = "stock_ingreso" =>
         LET it == last.form[1]
         IN IF it.cantidad <= 0
            THEN db = last.antes /\ last.flash = FlashCantidad
            ELSE HayProducto(last.antes, it.producto) =>
                   /\ last.flash = FlashStock
                   /\ db.productos[it.producto]
                        = <<last.antes.productos[it.producto][1] + it.cantidad>>
                   /\ last.antes.movimientos_stock \subseteq db.movimientos_stock
                   /\ \E l \in Entradas(db, it.producto) :
                        /\ db.movimientos_stock
                             = last.antes.movimientos_stock \cup {l}
                        /\ l \notin last.antes.movimientos_stock
                        /\ l.cantidad = it.cantidad
                        /\ l.cantidad_restante = <<it.cantidad>>
                        /\ l.fecha_vencimiento = last.fecha

(* a second lot received for a product that already had one, partly sold *)
C19_Witness ==
    /\ last.op = "stock_ingreso"
    /\ last.flash = FlashStock
    /\ HayProducto(last.antes, last.form[1].producto)
    /\ \E l \in Entradas(last.antes, last.form[1].producto) :
         /\ IntOr0(l.cantidad_restante) < l.cantidad
         /\ l \in db.movimientos_stock
    /\ Cardinality(Entradas(db, last.form[1].producto)) = 2

(* everything a sale of items writes, on top of the file d *)
VentaCompleta(d, conn, items) ==
    /\ conn.ventas = d.ventas \cup {NextId(d, "ventas")}
    /\ Cardinality(conn.ventas_items \ d.ventas_items) = Len(items)
    /\ \A vi \in conn.ventas_items \ d.ventas_items :
         vi.venta_id = NextId(d, "ventas")
    /\ SumaCantidad(NuevasSalidas(d, conn)) = SumaLineas(items)
    /\ \A p \in ProdIds :
         LET q == SumaLineas(SelectSeq(items, LAMBDA it : it.producto = p))
         IN /\ SumaRestante(Entradas(d, p))
                 - SumaRestante(Entradas(conn, p)) = q
            /\ HayProducto(d, p) =>
                 conn.productos[p] = <<d.productos[p][1] - q>>

(* C20: the allocator commits nothing; what a sale writes (lot decrements, *)
(* depletion rows, cached-total decrement, ventas row, ventas_items rows)  *)
(* reaches the file at the one commit of the handler, all of it, or none   *)
(* of it does.                                                             *)
C20_UnSoloCommit ==
    /\ \A form \in Forms(1..MaxCant, MaxItems) :
         LET res == ventas(db, form)
         IN IF res.flash = FlashVenta
            THEN VentaCompleta(db, res.db, form)
            ELSE res.db = db
    /\ last.op = "ventas" =>
         IF last.flash = FlashVenta
         THEN VentaCompleta(last.antes, db, ItemsValidos(last.form))
         ELSE db = last.antes

(* a sale of two lines that reached the file whole *)
C20_Witness ==
    /\ VentaHecha
    /\ Len(ItemsValidos(last.form)) = 2
    /\ Cardinality(NuevasSalidas(last.antes, db)) >= 2
    /\ Cardinality(db.ventas_items) = 2
    /\ db.ventas = {1}

(* the file without the lots of the product that are not tracked *)
SinNulos(conn, producto_id) ==
    [conn EXCEPT !.movimientos_stock =
        {m \in @ : ~(/\ m.tipo = "entrada"
                     /\ m.producto_id = producto_id
                     /\ IsNull(m.cantidad_restante))}]

(* C21: an allocation leaves every lot whose cantidad_restante is NULL     *)
(* as it was and writes no depletion row for it, and goes on with the      *)
(* lots after it: what it does to the rest of the file and what it raises  *)
(* are what it would do and raise if the NULL lots were not in the file.   *)
C21_NuloSaltado ==
    \A it \in LineasPositivas :
        LET r == consumir_stock_fefo(db, it.producto, it.cantidad)
            sin == consumir_stock_fefo(SinNulos(db, it.producto),
                                       it.producto, it.cantidad)
        IN /\ \A l \in Entradas(db, it.producto) :
                IsNull(l.cantidad_restante)
                => /\ l \in r.conn.movimientos_stock
                   /\ SalidasDe(r.conn, l) = {}
           /\ r.error = sin.error
           /\ SinNulos(r.conn, it.producto) = sin.conn

(* an allocation went through on a file where a NULL lot came before a     *)
(* tracked lot in the FEFO order, and took from the tracked lot            *)
C21_Witness ==
    /\ last.op = "consumir_stock_fefo"
    /\ last.flash = SinError
    /\ \E n, t \in Entradas(last.antes, last.form[1].producto) :
         /\ IsNull(n.cantidad_restante)
         /\ OrdenFefo(n, t)
         /\ t \in Tocados(last.antes, db, last.form[1].producto)
         /\ n \in db.movimientos_stock
         /\ SalidasDe(db, n) = {}

RECURSIVE PedidoAntes(_, _, _)
(* what the lines before line k ask of the product producto_id *)
PedidoAntes(items, k, producto_id) ==
    IF k <= 1 THEN 0
    ELSE PedidoAntes(items, k - 1, producto_id)
         + (IF items[k - 1].producto = producto_id
            THEN items[k - 1].cantidad ELSE 0)

(* the sale asks of some product more than its cached total, by line k *)
PideDeMas(d, items) ==
    \E k \in 1..Len(items) :
        PedidoAntes(items, k + 1, items[k].producto)
            > IntOr0(d.productos[items[k].producto])

(* C22: the lines of a sale are allocated in the order of the form, each   *)
(* on what the lines before it left: a line reached after the lines        *)
(* before it went through is refused for insufficient stock exactly when   *)
(* it asks more than the cached total less what those lines took of the    *)
(* same product, and a sale whose lines of a product add up to more than   *)
(* the cached total fails as a whole, the file staying as it was.          *)
C22_LineasEnOrden ==
    /\ \A form \in Forms(1..(MaxCant + 1), MaxItems) :
         /\ \A k \in 1..Len(form) :
              DescargarItems(db, SubSeq(form, 1, k - 1), 1).error = SinError
              => LET c == ConnAntesDeItem(db, form, k)
                     p == form[k].producto
                 IN /\ IntOr0(c.productos[p])
                         = IntOr0(db.productos[p]) - PedidoAntes(form, k, p)
                    /\ (VentaLinea(c, form[k]).error = ErrInsuficiente
                        <=> form[k].cantidad
                              > IntOr0(db.productos[p])
                                  - PedidoAntes(form, k, p))
         /\ PideDeMas(db, form)
              => LET r == ventas(db, form)
                 IN r.db = db /\ r.flash \in {ErrInsuficiente, ErrFefo}
    /\ (last.op = "ventas" /\ PideDeMas(last.antes, ItemsValidos(last.form)))
         => /\ db = last.antes
            /\ last.flash \in {ErrInsuficiente, ErrFefo}

(* a sale of two lines of one product, each within the cached total and    *)
(* the lots, the two together above it: refused on the second line, the    *)
(* file as it was                                                          *)
C22_Witness ==
    /\ last.op = "ventas"
    /\ last.flash = ErrInsuficiente
    /\ db = last.antes
    /\ LET items == ItemsValidos(last.form)
       IN /\ Len(items) = 2
          /\ items[1].producto = items[2].producto
          /\ items[1].cantidad <= IntOr0(db.productos[items[1].producto])
          /\ items[2].cantidad <= IntOr0(db.productos[items[1].producto])
          /\ VentaLinea(db, items[1]).error = SinError
          /\ VentaLinea(db, items[2]).error = SinError

(* C23: an allocation of a positive quantity that is not above the cached  *)
(* total of the product goes through: it does not raise "No se pudo        *)
(* completar FEFO", and no sale is answered with it.                       *)
C23_AsignacionPosible ==
    /\ \A it \in LineasPositivas :
         it.cantidad <= IntOr0(db.productos[it.producto])
         => consumir_stock_fefo(db, it.producto, it.cantidad).error = SinError
    /\ last.op = "ventas" => last.flash # ErrFefo

(* every tracked lot of the file holds between 0 and what it received *)
LotesEnRango(conn) ==
    \A m \in Lotes(conn) :
        ~IsNull(m.cantidad_restante)
        => /\ 0 <= m.cantidad_restante[1]
           /\ m.cantidad_restante[1] <= m.cantidad

(* C24: with the requests served one after the other, every tracked lot    *)
(* satisfies 0 <= cantidad_restante <= cantidad, in the file after every   *)
(* request and on the connection of a sale after each of its lines.        *)
C24_LoteEnRango ==
    /\ LotesEnRango(db)
    /\ \A form \in Forms(1..MaxCant, MaxItems) :
         \A k \in 0..Len(form) :
            LotesEnRango(DescargarItems(db, SubSeq(form, 1, k), 1).conn)

(* a sale went through that emptied one lot and took part of another *)
C24_Witness ==
    /\ VentaHecha
    /\ \E p \in ProdIds :
         \E a, b \in Tocados(last.antes, db, p) :
            /\ Fila(db, a.id).cantidad_restante = <<0>>
            /\ Fila(db, b.id).cantidad_restante # <<0>>
            /\ Fila(db, b.id).cantidad_restante[1] < b.cantidad

(* C25: for every lot of the file, the quantities of the depletion rows    *)
(* whose entrada_id is the lot add up to cantidad - cantidad_restante.     *)
C25_CuentaPorLote ==
    \A l \in Lotes(db) :
        ~IsNull(l.cantidad_restante)
        => SumaCantidad(SalidasDe(db, l))
             = l.cantidad - l.cantidad_restante[1]

(* C26: productos.cantidad is below 0 for no product of the file.          *)
C26_TotalNoNegativo ==
    \A p \in ProdIds : IntOr0(db.productos[p]) >= 0

(* the rows of devoluciones_items of the return did *)
ItemsDe(conn, did) == {it \in conn.devoluciones_items : it.devolucion_id = did}

(* C27: the deletion of a return takes the quantity of each of its items   *)
(* off productos.cantidad of the item's product and removes its header     *)
(* and items, and writes nothing else; a return followed by its deletion   *)
(* leaves every productos.cantidad as it was before the return, and        *)
(* neither step changes movimientos_stock.                                 *)
C27_BorrarDevolucionDeshace ==
    /\ \A form \in Forms(1..MaxCant, MaxItems) :
         LET r1 == devoluciones(db, form)
             did == NextId(db, "devoluciones_cab")
             r2 == devoluciones_delete(r1.db, did)
         IN /\ did \in r1.db.devoluciones_cab
            /\ r1.db.movimientos_stock = db.movimientos_stock
            /\ r2.db = [db EXCEPT !.seq = r1.db.seq]
    /\ last.op = "devoluciones_delete" =>
         LET items == ItemsDe(last.antes, last.id)
         IN /\ \A p \in ProdIds :
                 HayProducto(last.antes, p) =>
                   db.productos[p] =
                     <<last.antes.productos[p][1]
                         - SumaCantidad({it \in items : it.producto_id = p})>>
            /\ last.id \notin db.devoluciones_cab
            /\ ItemsDe(db, last.id) = {}
            /\ db = [last.antes EXCEPT
                       !.productos = db.productos,
                       !.devoluciones_cab = @ \ {last.id},
                       !.devoluciones_items = @ \ items]

(* a return of a product that has a lot and a depletion row was deleted:   *)
(* the cached total went down by the returned quantity, the lot and the    *)
(* depletion row are as they were                                          *)
C27_Witness ==
    /\ last.op = "devoluciones_delete"
    /\ \E it \in ItemsDe(last.antes, last.id) :
         /\ HayProducto(last.antes, it.producto_id)
         /\ it.cantidad > 0
         /\ db.productos[it.producto_id]
              = <<last.antes.productos[it.producto_id][1] - it.cantidad>>
         /\ \E s \in Salidas(db) : s.producto_id = it.producto_id
    /\ db.movimientos_stock = last.antes.movimientos_stock
    /\ db.devoluciones_cab = {}

(* the rows of ventas_items of the sale venta_id *)
ItemsDeVenta(conn, venta_id) ==
    {it \in conn.ventas_items : it.venta_id = venta_id}

(* C28: the deletion of a sale removes its header and its line items and   *)
(* nothing else: every productos.cantidad, every lot and every depletion   *)
(* row is as the deletion found it, so what the sale took stays taken.     *)
C28_BorrarVentaNoRepone ==
    /\ \A venta_id \in 1..MaxVentas :
         LET r == ventas_delete(db, venta_id)
         IN /\ r.db.productos = db.productos
            /\ r.db.movimientos_stock = db.movimientos_stock
            /\ venta_id \notin r.db.ventas
            /\ ItemsDeVenta(r.db, venta_id) = {}
    /\ \A form \in Forms(1..MaxCant, MaxItems) :
         LET r1 == ventas(db, form)
             r2 == ventas_delete(r1.db, NextId(db, "ventas"))
         IN /\ r2.db.productos = r1.db.productos
            /\ r2.db.movimientos_stock = r1.db.movimientos_stock
            /\ r2.db.ventas = db.ventas
            /\ r2.db.ventas_items = db.ventas_items
    /\ last.op = "ventas_delete" =>
         db = [last.antes EXCEPT
                 !.ventas = @ \ {last.id},
                 !.ventas_items = @ \ ItemsDeVenta(last.antes, last.id)]

(* a sale that had taken from a lot was deleted: the lot is still below    *)
(* what it received, the depletion row is there, the cached total is the   *)
(* one the sale left                                                       *)
C28_Witness ==
    /\ last.op = "ventas_delete"
    /\ last.id \in last.antes.ventas
    /\ db.ventas = {}
    /\ \E it \in ItemsDeVenta(last.antes, last.id) :
         /\ HayProducto(db, it.producto_id)
         /\ db.productos[it.producto_id]
              = last.antes.productos[it.producto_id]
         /\ \E s \in Salidas(db) :
              /\ s.producto_id = it.producto_id
              /\ IntOr0(Fila(db, s.entrada_id[1]).cantidad_restante)
                   < Fila(db, s.entrada_id[1]).cantidad

(* what the backfill makes of the file d is conn: the lots whose           *)
(* cantidad_restante was NULL or below 0 hold their cantidad, every other  *)
(* row of movimientos_stock and every other table is as it was             *)
Rellenado(d, conn) ==
    /\ {m.id : m \in conn.movimientos_stock}
         = {m.id : m \in d.movimientos_stock}
    /\ \A m \in d.movimientos_stock :
         LET n == Fila(conn, m.id)
         IN IF /\ m.tipo = "entrada"
               /\ \/ IsNull(m.cantidad_restante)
                  \/ IntOr0(m.cantidad_restante) < 0
            THEN n = [m EXCEPT !.cantidad_restante = <<m.cantidad>>]
            ELSE n = m
    /\ Salidas(conn) = Salidas(d)
    /\ conn = [d EXCEPT !.movimientos_stock = conn.movimientos_stock]

(* C29: the backfill sets cantidad_restante to cantidad on the lots where  *)
(* it is NULL or below 0 and changes nothing else: a lot at 0 or above,    *)
(* a depletion row and a cached total are left as they are, and a second   *)
(* run changes nothing.                                                    *)
C29_BackfillSoloNulosYNegativos ==
    /\ Rellenado(db, ensure_schema(db))
    /\ ensure_schema(ensure_schema(db)) = ensure_schema(db)
    /\ last.op = "ensure_schema" =>
         /\ Rellenado(last.antes, db)
         /\ ensure_schema(db) = db

(* the backfill ran on a file with a lot at NULL or below 0, a lot at 0    *)
(* and a depletion row: the first lot holds its cantidad, the second is    *)
(* still at 0                                                              *)
C29_Witness ==
    /\ last.op = "ensure_schema"
    /\ Salidas(db) # {}
    /\ \E a, b \in Lotes(last.antes) :
         /\ \/ IsNull(a.cantidad_restante)
            \/ IntOr0(a.cantidad_restante) < 0
         /\ Fila(db, a.id).cantidad_restante = <<a.cantidad>>
         /\ b.cantidad_restante = <<0>>
         /\ Fila(db, b.id).cantidad_restante = <<0>>

====
